---- MODULE Spec2Model ----
(***************************************************************************)
(* A model of cbuild.py: the descriptor scanner (class Project) and the    *)
(* build orchestrator (main).                                              *)
(*                                                                         *)
(* A descriptor file (CMakeLists.txt) is a sequence of lines; a line is    *)
(* the record of the regular expression of the scanner that matches it     *)
(* and of the group that expression captures.  A directory is the          *)
(* sequence of its path components below the project path, so that         *)
(* os.path.join(dir, sub) is Append(dir, sub) and the file                 *)
(* os.path.join(dir, CMAKE) is named by dir.  The project path is the      *)
(* current directory (--path left at its default).                         *)
(***************************************************************************)
EXTENDS Integers, Sequences, FiniteSets, TLC

VARIABLES
    files,          \* the descriptor tree: directory -> lines of its CMakeLists.txt
    platform,       \* platform.system()
    cmake_found,    \* whether the cmake command can be invoked
    build_conf,     \* build.json: <<>> when the file is absent, else <<its JSON object>>
    build_tree,     \* the build directory: "absent", "empty" or "cache" (holds CMakeCache.txt)
    pc,             \* the statement of main the run is at
    args,           \* argparse's namespace of the run
    project,        \* main's local: the resolved Project (or the exception that ended it)
    modified,       \* main's local
    proc,           \* main's local: <<>> for None, else <<returncode>>
    log,            \* what the run did: the subprocesses it started, its copies, how it ended
    history         \* what earlier runs and edits did (for claims about successive runs)

vars == <<files, platform, cmake_found, build_conf, build_tree, pc, args, project,
          modified, proc, log, history>>

-----------------------------------------------------------------------------
(* Bounds of the model *)

\* exit codes of the external tool and of the executable are 0..MaxExitCode
MaxExitCode == 2
\* a generated root descriptor is project(A) followed by at most this many lines
MaxRootLines == 3
\* a generated included descriptor has at most this many lines
MaxSubLines == 2

-----------------------------------------------------------------------------
(* Values *)

None == "None"
PROJECT_NAME == "${PROJECT_NAME}"

Line(kind, arg) == [kind |-> kind, arg |-> arg]
P(name) == Line("project", name)
E(name) == Line("add_executable", name)
S(dir) == Line("add_subdirectory", dir)
Comment == Line("comment", "#")

Range(s) == {s[i] : i \in DOMAIN s}

\* the current directory, and os.path.join(dir, subdirectory)
Cwd == <<>>
Join(dir, sub) == Append(dir, sub)

\* an exception or quit() leaving the function: its type and the line that raises it
Raise(exc, line) == [err |-> exc, line |-> line]
Ok(v) == [err |-> "", val |-> v]
Failed(r) == r.err # ""

\* a dict in insertion order: a sequence of <<key, value>>
DictKeys(d) == {d[i][1] : i \in DOMAIN d}
DictSet(d, k, v) ==
    IF k \in DictKeys(d)
    THEN [i \in DOMAIN d |-> IF d[i][1] = k THEN <<k, v>> ELSE d[i]]
    ELSE Append(d, <<k, v>>)

RECURSIVE DictUpdate(_, _)
DictUpdate(d, other) ==
    IF other = <<>> THEN d
    ELSE DictUpdate(DictSet(d, Head(other)[1], Head(other)[2]), Tail(other))

-----------------------------------------------------------------------------
(* The descriptor scanner *)

RECURSIVE FirstProject(_, _)
FirstProject(lines, i) ==
    IF i > Len(lines) THEN None
    ELSE IF lines[i].kind = "project" THEN lines[i].arg
    ELSE FirstProject(lines, i + 1)

get_project_name(dir) ==
    IF dir \notin DOMAIN files THEN Raise("FileNotFoundError", 230)
    ELSE LET name == FirstProject(files[dir], 1)
         IN  IF name # None THEN Ok(name) ELSE Raise("Exception", 239)

RECURSIVE get_executable_names(_, _)
RECURSIVE ExecutableLines(_, _, _, _)

\* the loop of get_executable_names from line i on, `executables` collected so far
ExecutableLines(self_name, dir, i, executables) ==
    IF i > Len(files[dir]) THEN Ok(executables)
    ELSE LET line == files[dir][i]
             next(execs) == ExecutableLines(self_name, dir, i + 1, execs)
         IN  CASE line.kind = "comment" -> next(executables)
               [] line.kind = "project" ->
                    IF line.arg # self_name THEN Ok(executables) ELSE next(executables)
               [] line.kind = "add_subdirectory" ->
                    LET sub == get_executable_names(self_name, Join(dir, line.arg))
                    IN  IF Failed(sub) THEN sub ELSE next(executables \o sub.val)
               [] line.kind = "add_executable" ->
                    IF line.arg = PROJECT_NAME
                    THEN LET name == get_project_name(dir)
                         IN  IF Failed(name) THEN name
                             ELSE next(Append(executables, name.val))
                    ELSE next(Append(executables, line.arg))
               [] OTHER -> next(executables)

get_executable_names(self_name, dir) ==
    IF dir \notin DOMAIN files THEN Raise("FileNotFoundError", 145)
    ELSE ExecutableLines(self_name, dir, 1, <<>>)

\* set_os_specific: build_dir of a project whose root project is in root_dir
BuildDirOf(root_dir) ==
    IF platform = "Windows" THEN root_dir \o <<"build", "windows">>
    ELSE root_dir \o <<"build", "linux">>

\* set_os_specific: executables_dir.  root is <<>> for None, else <<the root's dir>>
ExecutablesDirOf(dir, root) ==
    IF root # <<>>
    THEN BuildDirOf(root[1]) \o (IF platform = "Windows" THEN <<"Debug">> ELSE <<>>) \o dir
    ELSE BuildDirOf(dir) \o (IF platform = "Windows" THEN <<"Debug">> ELSE <<>>)

\* os.path.join(executables_dir, exec), for each exec
PathsIn(executables_dir, executables) ==
    [e \in Range(executables) |-> [dir |-> executables_dir, file |-> e, ext |-> ""]]

Updated(paths, more) ==
    [e \in DOMAIN paths \cup DOMAIN more |-> IF e \in DOMAIN more THEN more[e] ELSE paths[e]]

\* lines 38-39: the paths of the sub-projects' executables, in the dict's order
RECURSIVE SubprojectPaths(_, _)
SubprojectPaths(exec_paths, subprojects) ==
    IF subprojects = <<>> THEN exec_paths
    ELSE LET proj == Head(subprojects)[2]
         IN  SubprojectPaths(Updated(exec_paths, PathsIn(proj.executables_dir, proj.executables)),
                             Tail(subprojects))

\* lines 44-45: the executables of the sub-projects, appended in the dict's order
RECURSIVE Extended(_, _)
Extended(executables, subprojects) ==
    IF subprojects = <<>> THEN executables
    ELSE Extended(executables \o Head(subprojects)[2].executables, Tail(subprojects))

\* set_exec_ext
WithExecExt(paths) ==
    IF platform = "Windows" THEN [e \in DOMAIN paths |-> [paths[e] EXCEPT !.ext = ".exe"]]
    ELSE paths

RECURSIVE Project(_, _, _, _, _)
RECURSIVE get_subprojects(_, _, _, _)
RECURSIVE SubprojectLines(_, _, _, _, _, _)

\* the loop of get_subprojects from line i on.  child_root is the root the
\* Projects it creates are given (self.root, or self); `constructing` is the
\* set of <<name, dir>> of the Project constructors on the call stack
SubprojectLines(self_name, child_root, dir, i, subprojects, constructing) ==
    IF i > Len(files[dir]) THEN Ok(subprojects)
    ELSE LET line == files[dir][i]
             next(subs) == SubprojectLines(self_name, child_root, dir, i + 1, subs, constructing)
         IN  CASE line.kind = "project" /\ line.arg # self_name ->
                    LET proj == Project(line.arg, None, dir, child_root, constructing)
                    IN  IF Failed(proj) THEN Raise(proj.err, proj.line)
                        ELSE next(DictSet(subprojects, line.arg, proj))
               [] line.kind = "add_subdirectory" ->
                    LET sub == get_subprojects(self_name, child_root, Join(dir, line.arg),
                                               constructing)
                    IN  IF Failed(sub) THEN sub ELSE next(DictUpdate(subprojects, sub.val))
               [] OTHER -> next(subprojects)

get_subprojects(self_name, child_root, dir, constructing) ==
    IF dir \notin DOMAIN files THEN Raise("FileNotFoundError", 115)
    ELSE SubprojectLines(self_name, child_root, dir, 1, <<>>, constructing)

\* Selected, were a --run name that is not declared replaced by the default
Selected_Unchecked(self, executable) ==
    IF executable = "default" \/ executable = None \/ executable \notin Range(self.executables)
    THEN IF self.name \in DOMAIN self.executables_paths
         THEN [self EXCEPT !.executable = self.name,
                           !.executables_paths = WithExecExt(self.executables_paths),
                           !.run_path = WithExecExt(self.executables_paths)[self.name]]
         ELSE [self EXCEPT !.err = "KeyError", !.line = 57, !.executable = self.name]
    ELSE [self EXCEPT !.executable = executable,
                      !.executables_paths = WithExecExt(self.executables_paths),
                      !.run_path = WithExecExt(self.executables_paths)[executable]]

\* lines 47-57 of Project.__init__: the executable selected to run and its path
Selected(self, executable) ==
    IF executable = "default" \/ executable = None
    THEN IF self.name \in DOMAIN self.executables_paths
         THEN [self EXCEPT !.executable = self.name,
                           !.executables_paths = WithExecExt(self.executables_paths),
                           !.run_path = WithExecExt(self.executables_paths)[self.name]]
         ELSE [self EXCEPT !.err = "KeyError", !.line = 57, !.executable = self.name]
    ELSE IF executable \in Range(self.executables)
         THEN [self EXCEPT !.executable = executable,
                           !.executables_paths = WithExecExt(self.executables_paths),
                           !.run_path = WithExecExt(self.executables_paths)[executable]]
         ELSE [self EXCEPT !.err = "SystemExit", !.line = 54]

\* Project.__init__.  A constructor entered for a <<name, dir>> whose
\* constructor is still on the call stack repeats that constructor's calls
\* and never returns: the interpreter ends the recursion with RecursionError
Project(name, executable, dir, root, constructing) ==
    LET found == IF name # None THEN Ok(name) ELSE get_project_name(dir)
    IN  IF Failed(found) THEN found
        ELSE IF <<found.val, dir>> \in constructing THEN Raise("RecursionError", 126)
        ELSE
    LET executables == get_executable_names(found.val, dir)
    IN  IF Failed(executables) THEN executables
        ELSE
    LET subprojects == get_subprojects(found.val, IF root # <<>> THEN root ELSE <<dir>>, dir,
                                       constructing \cup {<<found.val, dir>>})
    IN  IF Failed(subprojects) THEN subprojects
        ELSE IF platform \notin {"Windows", "Linux"} THEN Raise("SystemExit", 92)
        ELSE
    LET executables_dir == ExecutablesDirOf(dir, root)
        self == [err |-> "", line |-> 0,
                 name |-> found.val,
                 dir |-> dir,
                 subprojects |-> subprojects.val,
                 build_dir |-> BuildDirOf(IF root # <<>> THEN root[1] ELSE dir),
                 executables_dir |-> executables_dir,
                 executables_paths |->
                     SubprojectPaths(PathsIn(executables_dir, executables.val), subprojects.val),
                 executables |-> Extended(executables.val, subprojects.val),
                 executable |-> None,
                 run_path |-> None]
    IN  Selected(self, executable)

-----------------------------------------------------------------------------
(* Files the orchestrator reads and writes *)

\* get_file_hash: the SHA-1 digest of the file's bytes, one digest per content
get_file_hash(dir) == <<"sha1", files[dir]>>

\* the JSON object update_build_conf dumps: a set of <<key, value>>
HashConf(digest) == {<<"cmakelists_hash", digest>>}
update_build_conf == <<HashConf(get_file_hash(Cwd))>>

\* read_build_conf, `"cmakelists_hash" in build_conf` and build_conf["cmakelists_hash"]
read_build_conf(conf) == conf[1]
HasHash(obj) == \E kv \in obj : kv[1] = "cmakelists_hash"
HashIn(obj) == (CHOOSE kv \in obj : kv[1] = "cmakelists_hash")[2]

\* the descriptor trees the orchestrator is run on: version 1 declares A and B
\* and includes sub, which declares the project C with the executable C;
\* version 2 is version 1 with one more line; later versions rename the project
RootOf(version) ==
    CASE version = 1 -> <<P("A"), E("A"), E("B"), S("sub")>>
      [] version = 2 -> <<P("A"), E("A"), E("B"), S("sub"), Comment>>
      [] OTHER -> <<P("P"), E("A"), E("B"), S("sub")>>

Tree(version) ==
    (Cwd :> RootOf(version)) @@ (<<"sub">> :> <<P("C"), E("C")>>)

-----------------------------------------------------------------------------
(* main *)

ExitCodes == 0 .. MaxExitCode
Platforms == {"Linux", "Windows", "Darwin"}

\* parser.parse_known_args(): --path and --cmake-options are left at their
\* defaults, and the arguments after "--" are only handed to the executable
Args ==
    [executable : {None, "default", "A", "X"},
     force : BOOLEAN, delete : BOOLEAN, project : BOOLEAN, ignore : BOOLEAN,
     source : {"", "env.sh"}, binary_dir : {None, "bin"}]

NoArgs ==
    [executable |-> None, force |-> FALSE, delete |-> FALSE, project |-> FALSE,
     ignore |-> FALSE, source |-> "", binary_dir |-> None]

\* what a run has done so far.  steps: the subprocesses started and the copy
\* made; exit: <<>> while running, else <<the exit code of the process>>;
\* ended: how main was left; descriptor and conf_before: the root descriptor
\* and build.json as the run found them; cache_seen: os.path.exists(cache_file)
\* as line 425 read it; detected: lines 381-402 were completed
NoLog ==
    [steps |-> <<>>, exit |-> <<>>, ended |-> "", descriptor |-> <<>>,
     conf_before |-> <<>>, cache_seen |-> "unread", detected |-> FALSE]

NewLog ==
    [NoLog EXCEPT !.descriptor = IF Cwd \in DOMAIN files THEN <<files[Cwd]>> ELSE <<>>,
                  !.conf_before = build_conf]

\* what the run before this one left: the root descriptor it found; whether it
\* completed lines 381-402 without --ignore; and whether some earlier run has
\* written build.json
NoHistory == [descriptor |-> <<>>, detected |-> FALSE, persisted |-> FALSE]

NoProject == Raise("unset", 0)

Init ==
    /\ files \in {Tree(1), Tree(2)}
    /\ platform \in Platforms
    /\ cmake_found \in BOOLEAN
    /\ build_conf \in {<<>>, <<{}>>} \cup {<<HashConf(<<"sha1", RootOf(v)>>)>> : v \in 1 .. 2}
    /\ build_tree \in {"absent", "empty", "cache"}
    /\ pc = "idle"
    /\ args = NoArgs
    /\ project = NoProject
    /\ modified = FALSE
    /\ proc = <<>>
    /\ log = NoLog
    /\ history = NoHistory

\* main returns code, or is left by quit() or by an uncaught exception
\* (sys.exit(1), and the interpreter's exit status 1)
Leave(code, how, lg) ==
    /\ pc' = "done"
    /\ log' = [lg EXCEPT !.exit = <<code>>, !.ended = how]

Step(step, returncode) == [step |-> step, returncode |-> returncode]

\* lines 333-348: a new run starts and parses its arguments
ParseArgs ==
    /\ pc = "idle"
    /\ \E a \in Args : args' = a
    /\ pc' = "preconditions"
    /\ log' = NewLog
    /\ UNCHANGED <<files, platform, cmake_found, build_conf, build_tree, project, modified,
                   proc, history>>

\* lines 350-359
CheckPreconditions ==
    /\ pc = "preconditions"
    /\ IF Cwd \notin DOMAIN files \/ ~cmake_found
       THEN Leave(1, "return", log)
       ELSE pc' = "create_project" /\ log' = log
    /\ UNCHANGED <<files, platform, cmake_found, build_conf, build_tree, args, project,
                   modified, proc, history>>

\* lines 361-367
CreateProject ==
    /\ pc = "create_project"
    /\ project' = Project(None, args.executable, Cwd, <<>>, {})
    /\ IF Failed(project') THEN Leave(1, project'.err, log)
       ELSE IF args.project THEN Leave(0, "return", log)
       ELSE pc' = "change_detection" /\ log' = log
    /\ UNCHANGED <<files, platform, cmake_found, build_conf, build_tree, args,
                   modified, proc, history>>

\* lines 384-390: build.json after it is created when absent
Created(conf) == IF conf = <<>> THEN update_build_conf ELSE conf

\* Detected, were the digests compared with == at line 396
Detected_Inverted(conf) ==
    IF HasHash(read_build_conf(conf))
    THEN IF HashIn(read_build_conf(conf)) = get_file_hash(Cwd)
         THEN <<TRUE, update_build_conf>>
         ELSE <<FALSE, conf>>
    ELSE <<FALSE, update_build_conf>>

\* Detected, were a build.json without a digest left as it is (line 402 missing)
Detected_KeepsMissing(conf) ==
    IF HasHash(read_build_conf(conf))
    THEN IF HashIn(read_build_conf(conf)) # get_file_hash(Cwd)
         THEN <<TRUE, update_build_conf>>
         ELSE <<FALSE, conf>>
    ELSE <<FALSE, conf>>

\* lines 392-402 on the build.json that lines 384-390 left: <<modified, build.json>>
Detected(conf) ==
    IF HasHash(read_build_conf(conf))
    THEN IF HashIn(read_build_conf(conf)) # get_file_hash(Cwd)
         THEN <<TRUE, update_build_conf>>
         ELSE <<FALSE, conf>>
    ELSE <<FALSE, update_build_conf>>

\* ChangeDetection, were build.json created only under `if not args.ignore`
ChangeDetection_IgnoreSkipsCreation ==
    /\ pc = "change_detection"
    /\ IF ~args.ignore
       THEN /\ modified' = Detected(Created(build_conf))[1]
            /\ build_conf' = Detected(Created(build_conf))[2]
       ELSE /\ modified' = FALSE
            /\ build_conf' = build_conf
    /\ log' = [log EXCEPT !.detected = TRUE]
    /\ pc' = "delete"
    /\ UNCHANGED <<files, platform, cmake_found, build_tree, args, project, proc, history>>

\* lines 381-402
ChangeDetection ==
    /\ pc = "change_detection"
    /\ IF ~args.ignore
       THEN /\ modified' = Detected(Created(build_conf))[1]
            /\ build_conf' = Detected(Created(build_conf))[2]
       ELSE /\ modified' = FALSE
            /\ build_conf' = Created(build_conf)
    /\ log' = [log EXCEPT !.detected = TRUE]
    /\ pc' = "delete"
    /\ UNCHANGED <<files, platform, cmake_found, build_tree, args, project, proc, history>>

\* lines 404-412.  shutil.rmtree is taken to remove the build directory
DeleteBuildDir ==
    /\ pc = "delete"
    /\ IF Failed(get_project_name(Cwd))
       THEN Leave(1, get_project_name(Cwd).err, log) /\ build_tree' = build_tree
       ELSE /\ build_tree' = IF build_tree # "absent" /\ args.delete THEN "absent"
                             ELSE build_tree
            /\ pc' = "source"
            /\ log' = log
    /\ UNCHANGED <<files, platform, cmake_found, build_conf, args, project, modified, proc,
                   history>>

\* lines 414-421
SourceCheck ==
    /\ pc = "source"
    /\ IF args.source # "" /\ platform = "Windows"
       THEN Leave(1, "return", log)
       ELSE pc' = "configure" /\ log' = log
    /\ UNCHANGED <<files, platform, cmake_found, build_conf, build_tree, args, project,
                   modified, proc, history>>

\* lines 423-429.  cmake writes CMakeCache.txt when it succeeds; when it
\* fails it may have written it or not
Configure ==
    /\ pc = "configure"
    /\ IF build_tree # "cache" \/ modified
       THEN \E returncode \in ExitCodes, cached \in BOOLEAN :
                /\ returncode = 0 => cached
                /\ build_tree' = IF cached \/ build_tree = "cache" THEN "cache" ELSE "empty"
                /\ log' = [log EXCEPT !.steps = Append(@, Step("configure", returncode)),
                                      !.cache_seen = build_tree]
       ELSE /\ build_tree' = build_tree
            /\ log' = [log EXCEPT !.cache_seen = build_tree]
    /\ pc' = "build"
    /\ UNCHANGED <<files, platform, cmake_found, build_conf, args, project, modified, proc,
                   history>>

\* Build, were a failed build to return 1 instead of proc.returncode
Build_ReturnsOne ==
    /\ pc = "build"
    /\ \E returncode \in ExitCodes :
        /\ proc' = <<returncode>>
        /\ IF returncode # 0 /\ ~args.force
           THEN Leave(1, "return", [log EXCEPT !.steps = Append(@, Step("build", returncode))])
           ELSE /\ pc' = "copy"
                /\ log' = [log EXCEPT !.steps = Append(@, Step("build", returncode))]
    /\ UNCHANGED <<files, platform, cmake_found, build_conf, build_tree, args, project,
                   modified, history>>

\* lines 431-437
Build ==
    /\ pc = "build"
    /\ \E returncode \in ExitCodes :
        /\ proc' = <<returncode>>
        /\ IF returncode # 0 /\ ~args.force
           THEN Leave(returncode, "return", [log EXCEPT !.steps = Append(@, Step("build", returncode))])
           ELSE /\ pc' = "copy"
                /\ log' = [log EXCEPT !.steps = Append(@, Step("build", returncode))]
    /\ UNCHANGED <<files, platform, cmake_found, build_conf, build_tree, args, project,
                   modified, history>>

\* lines 439-443.  The executables a successful build leaves are taken to be
\* where executables_paths says, so that shutil.copyfile finds them
CopyBinaries ==
    /\ pc = "copy"
    /\ log' = IF proc[1] = 0 /\ args.binary_dir # None /\ DOMAIN project.executables_paths # {}
              THEN [log EXCEPT !.steps = Append(@, Step("copy", 0))]
              ELSE log
    /\ pc' = "run"
    /\ UNCHANGED <<files, platform, cmake_found, build_conf, build_tree, args, project,
                   modified, proc, history>>

\* lines 445-461
RunExecutable ==
    /\ pc = "run"
    /\ IF args.executable # None
       THEN \E returncode \in ExitCodes :
                /\ proc' = <<returncode>>
                /\ Leave(returncode, "return",
                         [log EXCEPT !.steps = Append(@, Step("run", returncode))])
       ELSE proc' = proc /\ Leave(0, "return", log)
    /\ UNCHANGED <<files, platform, cmake_found, build_conf, build_tree, args, project,
                   modified, history>>

\* lines 464-465: sys.exit(main()).  The process ends and its locals with it
Exit ==
    /\ pc = "done"
    /\ pc' = "idle"
    /\ args' = NoArgs
    /\ project' = NoProject
    /\ modified' = FALSE
    /\ proc' = <<>>
    /\ log' = NoLog
    /\ history' = [descriptor |-> log.descriptor,
                   detected |-> log.detected /\ ~args.ignore,
                   persisted |-> history.persisted \/ build_conf # log.conf_before]
    /\ UNCHANGED <<files, platform, cmake_found, build_conf, build_tree>>

\* between two runs the user edits the root descriptor
EditDescriptor ==
    /\ pc = "idle"
    /\ \E v \in 1 .. 2 : files' = Tree(v) /\ files' # files
    /\ UNCHANGED <<platform, cmake_found, build_conf, build_tree, pc, args, project,
                   modified, proc, log, history>>

Next ==
    \/ ParseArgs
    \/ CheckPreconditions
    \/ CreateProject
    \/ ChangeDetection
    \/ DeleteBuildDir
    \/ SourceCheck
    \/ Configure
    \/ Build
    \/ CopyBinaries
    \/ RunExecutable
    \/ Exit
    \/ EditDescriptor

Spec == Init /\ [][Next]_vars

-----------------------------------------------------------------------------
(* The scanner on generated descriptor trees: main at line 362, for every  *)
(* tree of a bounded family, every platform and every --run argument       *)

\* all sequences over `alphabet` of length at most n
RECURSIVE SeqsUpTo(_, _)
SeqsUpTo(alphabet, n) ==
    IF n = 0 THEN {<<>>}
    ELSE LET shorter == SeqsUpTo(alphabet, n - 1)
         IN  shorter \cup {Append(s, l) : s \in shorter, l \in alphabet}

RootLines == {E(PROJECT_NAME), E("B"), S("sub"), P("B")}
SubLines == {P("C"), P("S"), E("C"), E(PROJECT_NAME), S("deep")}
DeepFile == <<P("D"), E("D")>>

\* the root descriptor declares project A first; sub/CMakeLists.txt may be
\* missing; sub/deep/CMakeLists.txt declares the project D and its executable
ScanTrees ==
    {(Cwd :> (<<P("A")>> \o root)) @@ (<<"sub", "deep">> :> DeepFile) :
        root \in SeqsUpTo(RootLines, MaxRootLines)}
    \cup
    {(Cwd :> (<<P("A")>> \o root)) @@ (<<"sub">> :> sub) @@ (<<"sub", "deep">> :> DeepFile) :
        root \in SeqsUpTo(RootLines, MaxRootLines), sub \in SeqsUpTo(SubLines, MaxSubLines)}

InitScan ==
    /\ files \in ScanTrees
    /\ platform \in Platforms
    /\ cmake_found = TRUE
    /\ build_conf = <<>>
    /\ build_tree = "absent"
    /\ pc = "create_project"
    /\ args \in {[NoArgs EXCEPT !.executable = e] : e \in {None, "default", "A", "X"}}
    /\ project = NoProject
    /\ modified = FALSE
    /\ proc = <<>>
    /\ log = NewLog
    /\ history = NoHistory

NextScan == CreateProject

SpecScan == InitScan /\ [][NextScan]_vars

-----------------------------------------------------------------------------
(* What the claims read *)

Count(step) == Cardinality({i \in DOMAIN log.steps : log.steps[i].step = step})
Did(step) == Count(step) > 0
ReturnCodes(step) == {log.steps[i].returncode : i \in {j \in DOMAIN log.steps : log.steps[j].step = step}}

\* the digest of the root descriptor as the run finds it, as build.json holds it
CurrentConf == <<HashConf(<<"sha1", log.descriptor[1]>>)>>

\* build.json as the run found it: without a digest, or with another digest
\* than the root descriptor's
DigestAbsent == log.conf_before = <<>> \/ ~HasHash(log.conf_before[1])
DigestDiffers == ~DigestAbsent /\ log.conf_before # CurrentConf

\* this run follows another run, and finds the root descriptor that run found
Unmodified == history.descriptor # <<>> /\ log.descriptor = history.descriptor

\* Project.__init__ of the root project reached line 47: the flattened
\* executables are known
Flattened == "executables" \in DOMAIN project

-----------------------------------------------------------------------------
(* C1 *)

\* C1, as claimed: in a run that follows another run on an unmodified root
\* descriptor, the configure command is never invoked
C1_SecondRunNeverConfigures == Unmodified => ~Did("configure")

\* C1, amended: in a run that follows, on an unmodified root descriptor, a run
\* that completed change detection without --ignore, the descriptor is not
\* marked modified, and the configure command is invoked at most once and only
\* when CMakeCache.txt is absent from the build directory at the configure step
C1_SecondRunConfiguresOnlyWithoutCache ==
    (Unmodified /\ history.detected) =>
        /\ ~modified
        /\ Count("configure") <= 1
        /\ Did("configure") => log.cache_seen # "cache"

\* a second run on an unmodified descriptor that found the cache and went on
\* to build without configuring
C1_Witness ==
    /\ pc = "done" /\ Unmodified /\ history.detected
    /\ log.cache_seen = "cache" /\ ~Did("configure") /\ Did("build")

-----------------------------------------------------------------------------
(* C2 *)

\* C2: when an earlier run has written build.json and the root descriptor no
\* longer has the digest written there, a run without --ignore that completes
\* change detection ends with the new digest in build.json and with the
\* configure command invoked exactly once
C2_EditForcesOneConfigure ==
    (pc = "done" /\ history.persisted /\ log.detected /\ ~args.ignore /\ DigestDiffers) =>
        build_conf = CurrentConf /\ Count("configure") = 1

-----------------------------------------------------------------------------
(* C3 *)

\* C3: when --run names an executable that is not among the flattened
\* executables, the run has ended with exit code 1 by quit(1), and has started
\* no configure, build, copy or run step
C3_UnknownRunName ==
    (Flattened /\ args.executable \notin {None, "default"}
               /\ args.executable \notin Range(project.executables)) =>
        /\ pc = "done"
        /\ project.err = "SystemExit"
        /\ log.exit = <<1>>
        /\ log.steps = <<>>

C3_Witness ==
    /\ pc = "done" /\ args.executable = "X" /\ Flattened
    /\ project.executables = <<"A", "B", "C">>
    /\ project.err = "SystemExit" /\ log.exit = <<1>> /\ log.steps = <<>>

-----------------------------------------------------------------------------
(* C4 *)

Lines(dir, kind) == SelectSeq(files[dir], LAMBDA l : l.kind = kind)

\* the root descriptor is project A, declares the executables A and B in this
\* order and includes at most the subdirectory sub
RootDeclaresAB ==
    /\ Lines(Cwd, "project") = <<P("A")>>
    /\ Lines(Cwd, "add_executable") \in {<<E("A"), E("B")>>, <<E(PROJECT_NAME), E("B")>>}
    /\ Lines(Cwd, "add_subdirectory") \in {<<>>, <<S("sub")>>}

\* sub/CMakeLists.txt declares one project, other than A, and then its one
\* executable C
SubDeclaresC ==
    /\ <<"sub">> \in DOMAIN files
    /\ Len(files[<<"sub">>]) = 2
    /\ files[<<"sub">>][1].kind = "project" /\ files[<<"sub">>][1].arg # "A"
    /\ \/ files[<<"sub">>][2] = E("C")
       \/ files[<<"sub">>][2] = E(PROJECT_NAME) /\ files[<<"sub">>][1].arg = "C"

\* C4: the root Project of such a tree is constructed and its executables are
\* A, B and then the sub-project's C; without a subdirectory they are A, B
C4_FlattenedExecutables ==
    (pc # "create_project" /\ platform \in {"Linux", "Windows"} /\ args.executable # "X"
        /\ RootDeclaresAB) =>
        IF Lines(Cwd, "add_subdirectory") = <<>>
        THEN project.err = "" /\ project.executables = <<"A", "B">>
        ELSE SubDeclaresC => project.err = "" /\ project.executables = <<"A", "B", "C">>

-----------------------------------------------------------------------------
(* C5 *)

\* C5: a run that is past the configure step has invoked the build command
\* once; when the build failed without --force the run has ended, returning
\* the build's exit code, with no copy and no run step; when it failed with
\* --force the run goes on to the copy and run steps
C5_BuildStep ==
    /\ (log.cache_seen # "unread" /\ pc # "build") => Count("build") = 1
    /\ \A rc \in ReturnCodes("build") :
        rc # 0 =>
            IF ~args.force
            THEN /\ pc = "done" /\ log.ended = "return" /\ log.exit = <<rc>>
                 /\ ~Did("copy") /\ ~Did("run")
            ELSE \/ pc \in {"copy", "run"}
                 \/ /\ pc = "done"
                    /\ IF args.executable # None THEN Did("run") ELSE log.exit = <<0>>

C5_Witness ==
    /\ pc = "done" /\ ReturnCodes("build") = {2} /\ ~args.force
    /\ args.binary_dir # None /\ args.executable # None
    /\ log.exit = <<2>> /\ ~Did("copy") /\ ~Did("run")

-----------------------------------------------------------------------------
(* C6 *)

\* C6: a run in which the configure command exited non-zero ends with a
\* non-zero exit code
C6_ConfigureFailureSurfaced ==
    (pc = "done" /\ \E rc \in ReturnCodes("configure") : rc # 0) => log.exit # <<0>>

-----------------------------------------------------------------------------
(* C7 *)

\* C7, as claimed: after change detection without --ignore, a digest that
\* differed or was absent has marked the run modified and is replaced by the
\* current one; a digest that was equal is untouched and the run is not marked
C7_AbsentOrDifferentMarksModified ==
    (log.detected /\ ~args.ignore) =>
        IF DigestAbsent \/ DigestDiffers
        THEN modified /\ build_conf = CurrentConf
        ELSE ~modified /\ build_conf = log.conf_before

\* C7, amended: a digest that differed has marked the run modified and is
\* replaced; a digest that was absent is replaced without marking the run
\* modified; a digest that was equal is untouched and the run is not marked
C7_OnlyDifferentMarksModified ==
    (log.detected /\ ~args.ignore) =>
        CASE DigestDiffers -> modified /\ build_conf = CurrentConf
          [] DigestAbsent -> ~modified /\ build_conf = CurrentConf
          [] OTHER -> ~modified /\ build_conf = log.conf_before

\* a run that found build.json without a digest
C7_Witness ==
    /\ log.detected /\ ~args.ignore /\ log.conf_before = <<{}>>
    /\ ~modified /\ build_conf = CurrentConf /\ pc = "done"

-----------------------------------------------------------------------------
(* C8 *)

\* the executable Project.__init__ is to select
ToSelect == IF args.executable \in {None, "default"} THEN project.name ELSE args.executable

\* C8: once the flattened executables of the root project are known, a
\* selected executable that is not among them ends the run by quit(1) with
\* exit code 1; one that is among them is the project's executable, and
\* run_path is its path in executables_paths
C8_SelectedExecutable ==
    (pc # "create_project" /\ Flattened) =>
        IF ToSelect \notin Range(project.executables)
        THEN project.err = "SystemExit" /\ project.line = 54 /\ log.exit = <<1>>
        ELSE /\ project.err = ""
             /\ project.executable = ToSelect
             /\ project.run_path = project.executables_paths[ToSelect]

-----------------------------------------------------------------------------
(* C9 *)

\* C9: with --ignore the run is never marked modified; after change
\* detection a build.json that existed is as the run found it, and one that
\* did not exist holds the current digest
C9_IgnoreSkipsComparison ==
    args.ignore =>
        /\ ~modified
        /\ log.detected =>
            IF log.conf_before # <<>> THEN build_conf = log.conf_before
            ELSE build_conf = CurrentConf

\* a run with --ignore on an edited descriptor, whose stale digest it left
C9_Witness ==
    /\ pc = "done" /\ args.ignore /\ log.detected /\ DigestDiffers
    /\ history.descriptor # <<>> /\ history.descriptor # log.descriptor
    /\ build_conf = log.conf_before /\ Did("build")

-----------------------------------------------------------------------------
(* C10 *)

\* C10: the construction of the root Project returns or raises on its own:
\* no Project constructor is entered again for the name and directory of a
\* constructor that is still running (the generated trees are finite, and
\* their inclusions only descend, so they are acyclic)
C10_ConstructionTerminates ==
    pc # "create_project" => project.err # "RecursionError"

-----------------------------------------------------------------------------
(* C11 *)

\* the places of the tree that declare an executable: <<directory, line>>
Declarations ==
    {site \in UNION {{<<dir, i>> : i \in DOMAIN files[dir]} : dir \in DOMAIN files} :
        files[site[1]][site[2]].kind = "add_executable"}

\* the executable name a declaration declares
DeclaredName(site) ==
    LET name == files[site[1]][site[2]].arg
        found == get_project_name(site[1])
    IN  IF name = PROJECT_NAME /\ ~Failed(found) THEN found.val ELSE name

\* no executable name is declared twice in the descriptor tree
DeclaredOnce ==
    \A s1, s2 \in Declarations : DeclaredName(s1) = DeclaredName(s2) => s1 = s2

NoDuplicates(list) == \A i, j \in DOMAIN list : list[i] = list[j] => i = j

\* C11: when the root Project of a tree that declares each executable name
\* once has been constructed, no name occurs twice in its flattened executables
\* list, and the keys of executables_paths are the names of that list
C11_FlattenedWithoutDuplicates ==
    (pc # "create_project" /\ project.err = "" /\ DeclaredOnce) =>
        /\ NoDuplicates(project.executables)
        /\ DOMAIN project.executables_paths = Range(project.executables)

====
